---- MODULE Spec2Model ----
(***************************************************************************)
(* Model of runpod_client_helper.py: the submit / poll / complete cycle of *)
(* a transcription job (send_async_transcription_request,                  *)
(* get_transcription_status, wait_for_transcription_completion,            *)
(* transcribe_audio) and the two audio preprocessing helpers               *)
(* convert_to_mp3_and_base64 and trim_audio_to_size.                       *)
(*                                                                         *)
(* The program is single-threaded and blocking.  One call runs at a time;  *)
(* pc is the position of that call.  The remote service and the external   *)
(* media tool are the environment: every answer they can give is a         *)
(* nondeterministic choice.  queries, sleeps, pending, failures, probes    *)
(* and reencodes observe the calls the program makes; they are not program *)
(* state and the counters among them saturate at MaxCount so that an       *)
(* endless polling loop stays a finite-state behaviour.                    *)
(***************************************************************************)
EXTENDS Integers, Sequences, FiniteSets, TLC

VARIABLES
    pc,                    \* position of the running call
    op,                    \* the function that was called
    base64_string_or_url,  \* argument of transcribe_audio
    polling_interval,      \* argument of the waiter
    job_id,                \* local job_id of the waiter / transcribe_audio
    status_response,       \* local status_response of the waiter
    result,                \* how the call ended: return value or exception
    remote,                \* status of the job inside the remote service
    sent,                  \* bodies POSTed to /run, in order
    issued,                \* the id the remote service answered to /run
    queriedIds,            \* job ids used in GET /status/{job_id}
    queries,               \* number of status queries issued
    sleeps,                \* number of time.sleep calls
    sleptFor,              \* the arguments time.sleep was called with
    pending,               \* number of IN_QUEUE / IN_PROGRESS answers received
    failures,              \* number of status queries that failed
    input_path,            \* argument of convert_to_mp3_and_base64
    tempCreated,           \* the call created its temporary file
    tempExists,            \* the temporary file is on disk
    mp3_bytes,             \* content of the temporary file
    conversions,           \* number of runs of the conversion tool
    convertError,          \* how the conversion tool failed, "" when it did not
    input_file,            \* argument of trim_audio_to_size
    target_size_mb,        \* argument of trim_audio_to_size
    fileBytes,             \* size on disk of input_file, -1 when missing
    fileTouched,           \* input_file was opened for writing
    current_size_mb,       \* local of trim_audio_to_size
    duration_seconds,      \* local of trim_audio_to_size
    target_duration_seconds, \* local of trim_audio_to_size
    probes,                \* number of ffmpeg.probe calls
    probeOk,               \* the probe yielded a duration
    reencodes              \* the re-encode runs, in order

vars == << pc, op, base64_string_or_url, polling_interval, job_id,
           status_response, result, remote, sent, issued, queriedIds,
           queries, sleeps, sleptFor, pending, failures,
           input_path, tempCreated, tempExists, mp3_bytes, conversions,
           convertError,
           input_file, target_size_mb, fileBytes, fileTouched,
           current_size_mb, duration_seconds, target_duration_seconds,
           probes, probeOk, reencodes >>

jobVars == << base64_string_or_url, polling_interval, job_id, status_response,
              remote, sent, issued, queriedIds, queries, sleeps, sleptFor,
              pending, failures >>
convertVars == << input_path, tempCreated, tempExists, mp3_bytes, conversions,
                  convertError >>
trimVars == << input_file, target_size_mb, fileBytes, fileTouched,
               current_size_mb, duration_seconds, target_duration_seconds,
               probes, probeOk, reencodes >>

-----------------------------------------------------------------------------
(* Bounds of the model *)

MaxLen == 5
MaxCount == 3
MaxBytes == 3
MaxSize == 3
MaxDuration == 2

(* Program constants *)

ExecutionTimeoutDefault == 600000
PollingIntervalDefault == 20

-----------------------------------------------------------------------------
(* Values *)

None == "None"
NoJob == "NoJob"

Alphabet == {"h", "t", "p"}
Strings == UNION { [1..n -> Alphabet] : n \in 0..MaxLen }

JobIds == {"job-1", "job-2"}
Payloads == {"P1", "P2"}
Intervals == {1, PollingIntervalDefault}

NonTerminal == {"IN_QUEUE", "IN_PROGRESS"}
Statuses == NonTerminal \cup {"COMPLETED", "FAILED", "CANCELLED", "TIMED_OUT"}

EmptyDict == << >>

NoPath == "NoPath"
Paths == {"talk.wav", "clip.mp4"}

Abs(n) == IF n < 0 THEN -n ELSE n

RECURSIVE Gcd(_, _)
Gcd(a, b) == IF b = 0 THEN a ELSE Gcd(b, a % b)

\* A float is modelled by the rational it stands for, in lowest terms with
\* a positive denominator
Rat(n, d) ==
    IF d = 0 THEN [num |-> n, den |-> 0]
    ELSE LET g == Gcd(Abs(n), Abs(d))
             sign == IF d < 0 THEN -1 ELSE 1
         IN  [num |-> sign * (n \div g), den |-> sign * (d \div g)]
RatLeq(a, b) == a.num * b.den <= b.num * a.den
RatLess(a, b) == a.num * b.den < b.num * a.den
RatEq(a, b) == a.num * b.den = b.num * a.den
RatMul(a, b) == Rat(a.num * b.num, a.den * b.den)
\* a / b for b > 0
RatDiv(a, b) == Rat(a.num * b.den, a.den * b.num)

\* File sizes on disk in bytes (steps of half a MB) and target sizes in MB
\* (steps of half a MB, the nonsensical negative one included)
FileSizes == { k * 524288 : k \in 0..MaxSize }
Targets == { Rat(k, 2) : k \in (-1)..MaxSize }
Durations == 0..MaxDuration

Bytes == {0, 77, 255}
ByteStrings == UNION { [1..n -> Bytes] : n \in 0..MaxBytes }

NoResult == [kind |-> "none", exc |-> "", value |-> None]
Return(v) == [kind |-> "return", exc |-> "", value |-> v]
Raise(e, v) == [kind |-> "raise", exc |-> e, value |-> v]

Bump(n) == IF n < MaxCount THEN n + 1 ELSE n

-----------------------------------------------------------------------------
(* Pure helpers *)

\* A containment test in place of the prefix test
StartsWithAnywhere(s, prefix) ==
    \E i \in 1..(Len(s) - Len(prefix) + 1) :
        SubSeq(s, i, i + Len(prefix) - 1) = prefix

\* str.startswith
StartsWith(s, prefix) ==
    /\ Len(s) >= Len(prefix)
    /\ SubSeq(s, 1, Len(prefix)) = prefix

Http == << "h", "t", "t", "p" >>

\* dict.get(key): None when the key is absent
DictGet(d, k) == IF k \in DOMAIN d THEN d[k] ELSE None

\* The decoded content of the JSON body built by
\* send_async_transcription_request.
RequestBody(audio, execution_timeout) ==
    LET payload_base64 == ("audio_base_64" :> audio)
        payload_url == ("audio_url" :> audio)
        policy == [executionTimeout |-> execution_timeout]
    IN  IF StartsWith(audio, Http)
        THEN [input |-> payload_url, policy |-> policy]
        ELSE [input |-> payload_base64, policy |-> policy]

\* What POST /run may answer once decoded: an id, or a body without one.
RunReplies == { ("id" :> j) : j \in JobIds } \cup { ("error" :> "rejected") }

\* response.get("id") in place of response["id"]
SubmitOutcomeLenient(response) ==
    [next |-> "poll", job_id |-> DictGet(response, "id"), result |-> NoResult]

\* The end of send_async_transcription_request: return response["id"]
SubmitOutcome(response) ==
    IF "id" \in DOMAIN response
    THEN [next |-> "poll", job_id |-> response["id"], result |-> NoResult]
    ELSE [next |-> "done", job_id |-> NoJob, result |-> Raise("KeyError", "id")]

\* What GET /status/{job_id} may answer once decoded while the job is in
\* state st; get_transcription_status returns it unchanged.
get_transcription_status(st) ==
    { ("status" :> st) }
    \cup { ("status" :> st @@ "output" :> p) : p \in Payloads \cup {None} }
    \cup { ("error" :> "not found") }
    \cup { ("output" :> p) : p \in Payloads }

\* The test of the waiter's loop: keep polling
IsPending(status) == status \in {"IN_PROGRESS", "IN_QUEUE"}

\* A result object that forgets the output
CompletedResultNoOutput(resp) == [status |-> "COMPLETED", output |-> None]

\* The result object of a COMPLETED job
CompletedResult(resp) ==
    [status |-> "COMPLETED", output |-> DictGet(resp, "output")]

FailureMessage(status) == << "Transcription job failed with status: ", status >>

\* A waiter that returns the status of a job that ended otherwise
WaitOutcomeReturnsStatus(resp) ==
    IF "status" \notin DOMAIN resp
    THEN [next |-> "done", result |-> Raise("KeyError", "status")]
    ELSE LET status == resp["status"]
         IN  IF IsPending(status)
             THEN [next |-> "sleep", result |-> NoResult]
             ELSE [next |-> "done",
                   result |-> Return([status |-> status,
                                      output |-> DictGet(resp, "output")])]

\* A waiter that sleeps and asks again when the answer has no status
WaitOutcomeRetry(resp) ==
    IF "status" \notin DOMAIN resp
    THEN [next |-> "sleep", result |-> NoResult]
    ELSE LET status == resp["status"]
         IN  IF IsPending(status)
             THEN [next |-> "sleep", result |-> NoResult]
             ELSE IF status = "COMPLETED"
                  THEN [next |-> "done", result |-> Return(CompletedResult(resp))]
                  ELSE [next |-> "done",
                        result |-> Raise("NoOutputFromRunpodException",
                                         FailureMessage(status))]

\* A waiter that gives up at its third query
WaitOutcomeBounded(resp) ==
    IF "status" \notin DOMAIN resp
    THEN [next |-> "done", result |-> Raise("KeyError", "status")]
    ELSE LET status == resp["status"]
         IN  IF IsPending(status)
             THEN IF queries >= 2
                  THEN [next |-> "done", result |-> Raise("TimeoutError", None)]
                  ELSE [next |-> "sleep", result |-> NoResult]
             ELSE IF status = "COMPLETED"
                  THEN [next |-> "done", result |-> Return(CompletedResult(resp))]
                  ELSE [next |-> "done",
                        result |-> Raise("NoOutputFromRunpodException",
                                         FailureMessage(status))]

\* One pass of the waiter's loop body after the status query answered resp:
\* where the waiter goes and how it ends.
WaitOutcome(resp) ==
    IF "status" \notin DOMAIN resp
    THEN [next |-> "done", result |-> Raise("KeyError", "status")]
    ELSE LET status == resp["status"]
         IN  IF IsPending(status)
             THEN [next |-> "sleep", result |-> NoResult]
             ELSE IF status = "COMPLETED"
                  THEN [next |-> "done", result |-> Return(CompletedResult(resp))]
                  ELSE [next |-> "done",
                        result |-> Raise("NoOutputFromRunpodException",
                                         FailureMessage(status))]

\* base64.b64encode: the output as indices into the base64 alphabet, 64
\* standing for the padding character "="
RECURSIVE b64encode(_)
b64encode(bs) ==
    IF Len(bs) = 0 THEN << >>
    ELSE IF Len(bs) = 1
    THEN << bs[1] \div 4, (bs[1] % 4) * 16, 64, 64 >>
    ELSE IF Len(bs) = 2
    THEN << bs[1] \div 4, (bs[1] % 4) * 16 + bs[2] \div 16, (bs[2] % 16) * 4, 64 >>
    ELSE << bs[1] \div 4, (bs[1] % 4) * 16 + bs[2] \div 16,
            (bs[2] % 16) * 4 + bs[3] \div 64, bs[3] % 64 >>
         \o b64encode(SubSeq(bs, 4, Len(bs)))

\* The list convert_to_mp3_and_base64 returns: the encoded string and its
\* size in MB (one byte per character)
EncodedWithSize(bs) ==
    LET base64_encoded_data == b64encode(bs)
        base64_size == Rat(Len(base64_encoded_data), 1024 * 1024)
    IN  << base64_encoded_data, base64_size >>

\* The default of NamedTemporaryFile: delete on close
DeleteOnCloseDefault == TRUE

\* The delete argument of NamedTemporaryFile
DeleteOnClose == FALSE

\* The temporary file once the with block closed it
AfterClose(exists) == IF DeleteOnClose THEN FALSE ELSE exists

\* What convert_to_mp3_and_base64 does with an ffmpeg.Error
OnFfmpegError == Return(None)

\* os.path.getsize(input_file) / (1024 * 1024)
SizeMb(bytes) == Rat(bytes, 1024 * 1024)

\* A strict size test
WithinLimitStrict(current, target) == RatLess(current, target)

\* The test of trim_audio_to_size: nothing to trim
WithinLimit(current, target) == RatLeq(current, target)

\* The ratio taken upside down
TargetDurationInverted(target, current, duration) ==
    RatMul(RatDiv(current, target), Rat(duration, 1))

\* (target_size_mb / current_size_mb) * duration_seconds, current > 0
TargetDuration(target, current, duration) ==
    RatMul(RatDiv(target, current), Rat(duration, 1))

\* The re-encode run of trim_audio_to_size: input, output and the t option
TrimRunArgs(file, t) ==
    LET output_file == file
    IN  [input |-> file, output |-> output_file, t |-> t]

-----------------------------------------------------------------------------
Init ==
    /\ pc = "idle"
    /\ op = "none"
    /\ base64_string_or_url = << >>
    /\ polling_interval = PollingIntervalDefault
    /\ job_id = NoJob
    /\ status_response = EmptyDict
    /\ result = NoResult
    /\ remote = "NONE"
    /\ sent = << >>
    /\ issued = NoJob
    /\ queriedIds = {}
    /\ queries = 0
    /\ sleeps = 0
    /\ sleptFor = {}
    /\ pending = 0
    /\ failures = 0
    /\ input_path = NoPath
    /\ tempCreated = FALSE
    /\ tempExists = FALSE
    /\ mp3_bytes = << >>
    /\ conversions = 0
    /\ convertError = ""
    /\ input_file = NoPath
    /\ target_size_mb = Rat(0, 1)
    /\ fileBytes = -1
    /\ fileTouched = FALSE
    /\ current_size_mb = Rat(0, 1)
    /\ duration_seconds = 0
    /\ target_duration_seconds = Rat(0, 1)
    /\ probes = 0
    /\ probeOk = FALSE
    /\ reencodes = << >>

\* transcribe_audio is called
transcribe_audio ==
    /\ pc = "idle"
    /\ \E s \in Strings, iv \in Intervals :
          /\ base64_string_or_url' = s
          /\ polling_interval' = iv
    /\ op' = "transcribe"
    /\ pc' = "submit"
    /\ UNCHANGED << job_id, status_response, result, remote, sent, issued,
                    queriedIds, queries, sleeps, sleptFor, pending, failures >>
    /\ UNCHANGED << convertVars, trimVars >>

\* wait_for_transcription_completion is called directly, for a job the
\* remote service holds in any state
wait_for_transcription_completion ==
    /\ pc = "idle"
    /\ \E j \in JobIds, iv \in Intervals, st \in Statuses :
          /\ job_id' = j
          /\ polling_interval' = iv
          /\ remote' = st
    /\ op' = "wait"
    /\ pc' = "poll"
    /\ UNCHANGED << base64_string_or_url, status_response, result, sent, issued,
                    queriedIds, queries, sleeps, sleptFor, pending, failures >>
    /\ UNCHANGED << convertVars, trimVars >>

\* send_async_transcription_request, called by transcribe_audio with the
\* default execution timeout
send_async_transcription_request ==
    /\ pc = "submit"
    /\ sent' = Append(sent, RequestBody(base64_string_or_url, ExecutionTimeoutDefault))
    /\ \/ \* requests.post(...).json() raises
          /\ pc' = "done"
          /\ result' = Raise("TransportError", None)
          /\ UNCHANGED << job_id, issued, remote >>
       \/ \E response \in RunReplies :
             /\ pc' = SubmitOutcome(response).next
             /\ job_id' = SubmitOutcome(response).job_id
             /\ result' = SubmitOutcome(response).result
             /\ IF "id" \in DOMAIN response
                THEN issued' = response["id"] /\ remote' = "IN_QUEUE"
                ELSE UNCHANGED << issued, remote >>
    /\ UNCHANGED << op, base64_string_or_url, polling_interval, status_response,
                    queriedIds, queries, sleeps, sleptFor, pending, failures >>
    /\ UNCHANGED << convertVars, trimVars >>

\* One iteration of the waiter's loop: the status query and the branch on
\* its answer, up to the call of time.sleep, the return or the raise
WaitIteration ==
    /\ pc = "poll"
    /\ queries' = Bump(queries)
    /\ queriedIds' = queriedIds \cup {job_id}
    /\ \/ \* requests.get(...).json() raises
          /\ pc' = "done"
          /\ result' = Raise("TransportError", None)
          /\ failures' = Bump(failures)
          /\ UNCHANGED << status_response, pending >>
       \/ \E response \in get_transcription_status(remote) :
             /\ status_response' = response
             /\ pc' = WaitOutcome(response).next
             /\ result' = WaitOutcome(response).result
             /\ pending' = IF "status" \in DOMAIN response
                              /\ response["status"] \in NonTerminal
                           THEN Bump(pending) ELSE pending
             /\ failures' = IF "status" \in DOMAIN response
                            THEN failures ELSE Bump(failures)
    /\ UNCHANGED << op, base64_string_or_url, polling_interval, job_id, remote,
                    sent, issued, sleeps, sleptFor >>
    /\ UNCHANGED << convertVars, trimVars >>

\* time.sleep(polling_interval) returns
Sleep ==
    /\ pc = "sleep"
    /\ sleeps' = Bump(sleeps)
    /\ sleptFor' = sleptFor \cup {polling_interval}
    /\ pc' = "poll"
    /\ UNCHANGED << op, base64_string_or_url, polling_interval, job_id,
                    status_response, result, remote, sent, issued, queriedIds,
                    queries, pending, failures >>
    /\ UNCHANGED << convertVars, trimVars >>

\* The remote service moves the job; a terminal status is final
RemoteStep ==
    /\ pc \in {"poll", "sleep"}
    /\ remote \in NonTerminal
    /\ \E st \in Statuses \ {remote} : remote' = st
    /\ UNCHANGED << pc, op, base64_string_or_url, polling_interval, job_id,
                    status_response, result, sent, issued, queriedIds,
                    queries, sleeps, sleptFor, pending, failures >>
    /\ UNCHANGED << convertVars, trimVars >>

\* convert_to_mp3_and_base64 is called
convert_to_mp3_and_base64 ==
    /\ pc = "idle"
    /\ \E f \in Paths : input_path' = f
    /\ op' = "convert"
    /\ pc' = "cv_create"
    /\ UNCHANGED << result, tempCreated, tempExists, mp3_bytes, conversions,
                    convertError >>
    /\ UNCHANGED << jobVars, trimVars >>

\* tempfile.NamedTemporaryFile(suffix=".mp3", delete=False)
ConvertCreateTemp ==
    /\ pc = "cv_create"
    /\ \/ /\ tempCreated' = TRUE
          /\ tempExists' = TRUE
          /\ pc' = "cv_run"
          /\ UNCHANGED result
       \/ \* no temporary file could be created
          /\ pc' = "done"
          /\ result' = Raise("OSError", None)
          /\ UNCHANGED << tempCreated, tempExists >>
    /\ UNCHANGED << op, input_path, mp3_bytes, conversions, convertError >>
    /\ UNCHANGED << jobVars, trimVars >>

\* ffmpeg.input(input_path).output(output_mp3_path, ...).run(...)
ConvertRun ==
    /\ pc = "cv_run"
    /\ conversions' = Bump(conversions)
    /\ \/ \E bs \in ByteStrings :
             /\ mp3_bytes' = bs
             /\ pc' = "cv_read"
             /\ UNCHANGED << result, tempExists, convertError >>
       \/ \* the tool fails: ffmpeg.Error leaves the with block and is
          \* handled by the except clause
          /\ pc' = "done"
          /\ result' = OnFfmpegError
          /\ convertError' = "ffmpeg.Error"
          /\ tempExists' = AfterClose(tempExists)
          /\ UNCHANGED mp3_bytes
       \/ \* the tool cannot be started
          /\ pc' = "done"
          /\ result' = Raise("FileNotFoundError", None)
          /\ convertError' = "FileNotFoundError"
          /\ tempExists' = AfterClose(tempExists)
          /\ UNCHANGED mp3_bytes
    /\ UNCHANGED << op, input_path, tempCreated >>
    /\ UNCHANGED << jobVars, trimVars >>

\* open(output_mp3_path, "rb"), read and encode; the with block of the
\* temporary file ends
ConvertRead ==
    /\ pc = "cv_read"
    /\ \/ /\ pc' = "cv_remove"
          /\ UNCHANGED result
       \/ \* the file cannot be opened or read
          /\ pc' = "done"
          /\ result' = Raise("OSError", None)
    /\ tempExists' = AfterClose(tempExists)
    /\ UNCHANGED << op, input_path, tempCreated, mp3_bytes, conversions,
                    convertError >>
    /\ UNCHANGED << jobVars, trimVars >>

\* the size, os.remove(output_mp3_path) and the return
ConvertRemove ==
    /\ pc = "cv_remove"
    /\ \/ /\ tempExists
          /\ tempExists' = FALSE
          /\ result' = Return(EncodedWithSize(mp3_bytes))
       \/ \* os.remove fails: the file is gone already, or may not be removed
          /\ result' = Raise("OSError", None)
          /\ UNCHANGED tempExists
    /\ pc' = "done"
    /\ UNCHANGED << op, input_path, tempCreated, mp3_bytes, conversions,
                    convertError >>
    /\ UNCHANGED << jobVars, trimVars >>

\* trim_audio_to_size is called, on a file of any size or on a missing file
trim_audio_to_size ==
    /\ pc = "idle"
    /\ \E f \in Paths, t \in Targets, b \in FileSizes \cup {-1} :
          /\ input_file' = f
          /\ target_size_mb' = t
          /\ fileBytes' = b
    /\ op' = "trim"
    /\ pc' = "tr_size"
    /\ UNCHANGED << result, fileTouched, current_size_mb, duration_seconds,
                    target_duration_seconds, probes, probeOk, reencodes >>
    /\ UNCHANGED << jobVars, convertVars >>

\* os.path.getsize and the size test
TrimCheckSize ==
    /\ pc = "tr_size"
    /\ IF fileBytes < 0
       THEN /\ pc' = "done"
            /\ result' = Raise("OSError", None)
            /\ UNCHANGED current_size_mb
       ELSE /\ current_size_mb' = SizeMb(fileBytes)
            /\ IF WithinLimit(SizeMb(fileBytes), target_size_mb)
               THEN /\ pc' = "done"
                    /\ result' = Return(input_file)
               ELSE /\ pc' = "tr_probe"
                    /\ UNCHANGED result
    /\ UNCHANGED << op, input_file, target_size_mb, fileBytes, fileTouched,
                    duration_seconds, target_duration_seconds, probes, probeOk,
                    reencodes >>
    /\ UNCHANGED << jobVars, convertVars >>

\* ffmpeg.probe, float(probe['streams'][0]['duration']) and the target
\* duration
TrimProbe ==
    /\ pc = "tr_probe"
    /\ probes' = Bump(probes)
    /\ \/ \* the probe fails
          /\ pc' = "done"
          /\ result' = Raise("ffmpeg.Error", None)
          /\ UNCHANGED << duration_seconds, target_duration_seconds, probeOk >>
       \/ \* the probe reports no duration for the first stream
          /\ pc' = "done"
          /\ result' = Raise("KeyError", "duration")
          /\ UNCHANGED << duration_seconds, target_duration_seconds, probeOk >>
       \/ \E d \in Durations :
             /\ duration_seconds' = d
             /\ probeOk' = TRUE
             /\ IF current_size_mb.num = 0
                THEN /\ pc' = "done"
                     /\ result' = Raise("ZeroDivisionError", None)
                     /\ UNCHANGED target_duration_seconds
                ELSE /\ target_duration_seconds' =
                            TargetDuration(target_size_mb, current_size_mb, d)
                     /\ pc' = "tr_run"
                     /\ UNCHANGED result
    /\ UNCHANGED << op, input_file, target_size_mb, fileBytes, fileTouched,
                    current_size_mb, reencodes >>
    /\ UNCHANGED << jobVars, convertVars >>

\* ffmpeg.input(input_file).output(output_file, t=...).run(overwrite_output=True)
TrimRun ==
    /\ pc = "tr_run"
    /\ reencodes' = Append(reencodes, TrimRunArgs(input_file, target_duration_seconds))
    /\ \/ /\ fileTouched' = TRUE
          /\ result' = Return(TrimRunArgs(input_file, target_duration_seconds).output)
       \/ \* the tool fails, before or after it opened the output
          /\ fileTouched' \in BOOLEAN
          /\ result' = Raise("ffmpeg.Error", None)
    /\ pc' = "done"
    /\ UNCHANGED << op, input_file, target_size_mb, fileBytes, current_size_mb,
                    duration_seconds, target_duration_seconds, probes, probeOk >>
    /\ UNCHANGED << jobVars, convertVars >>

Next ==
    \/ transcribe_audio
    \/ wait_for_transcription_completion
    \/ send_async_transcription_request
    \/ WaitIteration
    \/ Sleep
    \/ RemoteStep
    \/ convert_to_mp3_and_base64
    \/ ConvertCreateTemp
    \/ ConvertRun
    \/ ConvertRead
    \/ ConvertRemove
    \/ trim_audio_to_size
    \/ TrimCheckSize
    \/ TrimProbe
    \/ TrimRun

Spec == Init /\ [][Next]_vars

\* The waiter called on its own, with the scheduling the code relies on: the
\* single thread keeps running, every status query answers or raises and
\* every sleep returns.  The remote service is under no obligation.
WaiterNext ==
    \/ wait_for_transcription_completion
    \/ WaitIteration
    \/ Sleep
    \/ RemoteStep

WaiterSpec ==
    /\ Init
    /\ [][WaiterNext]_vars
    /\ WF_vars(WaitIteration)
    /\ WF_vars(Sleep)

-----------------------------------------------------------------------------
(* Vocabulary of the properties *)

WaiterOps == {"wait", "transcribe"}

\* The last decoded answer to a status query carries this status
Answered(st) ==
    /\ op \in WaiterOps
    /\ "status" \in DOMAIN status_response
    /\ status_response["status"] = st

\* The counters have not saturated: they are the true numbers of calls
Exact == pending < MaxCount

\* n non-terminal answers, then one more query, and a sleep after each of
\* the non-terminal answers only
OneQueryAfterPending ==
    Exact => /\ queries = pending + 1
             /\ sleeps = pending

IsHttpUrl(s) ==
    /\ Len(s) >= 4
    /\ s[1] = "h" /\ s[2] = "t" /\ s[3] = "t" /\ s[4] = "p"

-----------------------------------------------------------------------------
\* C1: when the n first status queries are answered IN_QUEUE or IN_PROGRESS
\* and the next one COMPLETED, the waiter has issued exactly n+1 queries and
\* slept exactly n times, each time for polling_interval and never after the
\* COMPLETED answer, and returns {status: COMPLETED, output: P}, P being the
\* output of the last answer, None when the answer has no output.
C1_CompletedReturnsOutput ==
    /\ Answered("COMPLETED") =>
          /\ pc = "done"
          /\ result.kind = "return"
          /\ DOMAIN result.value = {"status", "output"}
          /\ result.value.status = "COMPLETED"
          /\ "output" \in DOMAIN status_response
                => result.value.output = status_response["output"]
          /\ "output" \notin DOMAIN status_response
                => result.value.output = None
          /\ OneQueryAfterPending
    /\ (op \in WaiterOps /\ pc = "poll" /\ Exact) =>
          /\ queries = pending
          /\ sleeps = pending
    /\ (op \in WaiterOps /\ pc = "sleep" /\ Exact) =>
          /\ queries = pending
          /\ sleeps = pending - 1
    /\ op \in WaiterOps => sleptFor \subseteq {polling_interval}

C1_Witness ==
    /\ Answered("COMPLETED")
    /\ "output" \in DOMAIN status_response
    /\ status_response["output"] = "P1"
    /\ pc = "done"
    /\ result.kind = "return"
    /\ pending = 2 /\ queries = 3 /\ sleeps = 2
    /\ sleptFor = {1}

\* C2: when a status query is answered with a status other than IN_QUEUE,
\* IN_PROGRESS and COMPLETED, the waiter raises NoOutputFromRunpodException
\* carrying that status, with no sleep and no query after that answer, and
\* returns no result object.
C2_OtherStatusRaises ==
    \A st \in Statuses \ {"IN_QUEUE", "IN_PROGRESS", "COMPLETED"} :
        Answered(st) =>
            /\ pc = "done"
            /\ result.kind = "raise"
            /\ result.exc = "NoOutputFromRunpodException"
            /\ result.value[2] = st
            /\ OneQueryAfterPending

C2_Witness ==
    /\ Answered("FAILED")
    /\ result.kind = "raise"
    /\ pending = 0 /\ queries = 1 /\ sleeps = 0

\* C3: the "input" object of every body sent to /run holds exactly one key,
\* audio_url when the input string starts with "http" and audio_base_64
\* otherwise, and under it the input string unchanged.
C3_ExactlyOneAudioKey ==
    \A i \in 1..Len(sent) :
        LET audio == sent[i].input
            s == base64_string_or_url
        IN  /\ Cardinality(DOMAIN audio) = 1
            /\ IsHttpUrl(s) => DOMAIN audio = {"audio_url"} /\ audio["audio_url"] = s
            /\ ~IsHttpUrl(s) => /\ DOMAIN audio = {"audio_base_64"}
                                /\ audio["audio_base_64"] = s

C3_Witness ==
    /\ Len(sent) = 1
    /\ base64_string_or_url = << "h", "t", "t", "p", "h" >>
    /\ DOMAIN sent[1].input = {"audio_url"}

\* C4: a status query that fails (transport error, or an answer without the
\* status field) ends the waiter with that error at once: no further query
\* and no sleep follow it, however many non-terminal answers preceded it.
C4_QueryFailureSurfaces ==
    (op \in WaiterOps /\ failures > 0) =>
        /\ pc = "done"
        /\ result.kind = "raise"
        /\ result.exc \in {"TransportError", "KeyError"}
        /\ failures = 1
        /\ OneQueryAfterPending

C4_Witness ==
    /\ op \in WaiterOps
    /\ failures = 1
    /\ pending = 2 /\ queries = 3 /\ sleeps = 2
    /\ result.exc = "KeyError"

\* C5: when the conversion tool fails inside convert_to_mp3_and_base64, the
\* call ends with the error of the tool after one run of the tool, not
\* with a normal return.
C5_ConversionErrorSurfaces ==
    (op = "convert" /\ convertError = "ffmpeg.Error") =>
        /\ pc = "done"
        /\ conversions = 1
        /\ result.kind = "raise"
        /\ result.exc = "ffmpeg.Error"

C7_WithinLimitUntouched ==
    (/\ op = "trim" /\ pc # "tr_size"
     /\ fileBytes >= 0
     /\ fileBytes * target_size_mb.den <= target_size_mb.num * 1024 * 1024) =>
        /\ pc = "done"
        /\ result = Return(input_file)
        /\ probes = 0
        /\ reencodes = << >>
        /\ ~fileTouched

C7_Witness ==
    /\ op = "trim" /\ pc = "done"
    /\ fileBytes = 1024 * 1024
    /\ target_size_mb = Rat(2, 2)
    /\ result.kind = "return"

\* The file is larger than the target
Oversized ==
    /\ op = "trim"
    /\ fileBytes >= 0
    /\ fileBytes * target_size_mb.den > target_size_mb.num * 1024 * 1024

\* (target_size / current_size) * duration, from the arguments and the probe
ExpectedDuration ==
    Rat(target_size_mb.num * 1024 * 1024 * duration_seconds,
        target_size_mb.den * fileBytes)

\* C8 as stated: for a file larger than the target, trim_audio_to_size
\* probes once, re-encodes once with (target_size / current_size) * duration,
\* strictly shorter than the probed duration, in place, and returns the path.
C8_AsStated ==
    (Oversized /\ pc = "done") =>
        /\ probes = 1
        /\ Len(reencodes) = 1
        /\ RatEq(reencodes[1].t, ExpectedDuration)
        /\ RatLess(reencodes[1].t, Rat(duration_seconds, 1))
        /\ reencodes[1].input = input_file
        /\ reencodes[1].output = input_file
        /\ result = Return(input_file)

\* C8, amended: for a file larger than the target, trim_audio_to_size probes
\* once.  When the probe yields a duration and the file is not empty it
\* re-encodes once, in place, with (target_size / current_size) * duration,
\* which is strictly shorter than a positive probed duration and equal to a
\* zero one, and returns the input path unless the re-encode raises.
\* Otherwise it raises without re-encoding.
C8_TrimsProportionally ==
    (Oversized /\ pc = "done") =>
        /\ probes = 1
        /\ (probeOk /\ fileBytes > 0) =>
              /\ Len(reencodes) = 1
              /\ RatEq(reencodes[1].t, ExpectedDuration)
              /\ duration_seconds > 0
                    => RatLess(reencodes[1].t, Rat(duration_seconds, 1))
              /\ duration_seconds = 0
                    => RatEq(reencodes[1].t, Rat(0, 1))
              /\ reencodes[1].input = input_file
              /\ reencodes[1].output = input_file
              /\ \/ result = Return(input_file)
                 \/ result = Raise("ffmpeg.Error", None)
        /\ ~(probeOk /\ fileBytes > 0) =>
              /\ reencodes = << >>
              /\ result.kind = "raise"

C8_Witness ==
    /\ Oversized /\ pc = "done"
    /\ probes = 1
    /\ Len(reencodes) = 1
    /\ duration_seconds = 2
    /\ target_size_mb = Rat(1, 2)
    /\ fileBytes = 3 * 524288
    /\ RatEq(reencodes[1].t, Rat(2, 3))
    /\ result.kind = "return"

\* The waiter has ended, by a return or by an exception
WaiterEnded == op = "wait" /\ pc = "done"

\* The last status query was answered with IN_QUEUE or IN_PROGRESS
LastAnswerPending ==
    /\ "status" \in DOMAIN status_response
    /\ status_response["status"] \in NonTerminal

\* C9: the waiter ends only on an answer that is not IN_QUEUE / IN_PROGRESS
\* or on a failed query, and on the first of these; once the remote service
\* holds the job in a terminal status the waiter ends; and while every
\* answer is IN_QUEUE or IN_PROGRESS it goes on querying for ever.
C9_EndsOnlyOnTerminalAnswer ==
    /\ [](WaiterEnded => (failures > 0 \/ ~LastAnswerPending))
    /\ []((op = "wait" /\ queries > 0 /\ (failures > 0 \/ ~LastAnswerPending))
            => WaiterEnded)
    /\ (op = "wait" /\ remote \notin NonTerminal) ~> WaiterEnded
    /\ (<>(op = "wait") /\ [](op = "wait" => (LastAnswerPending \/ queries = 0)
                                               /\ failures = 0))
          => ([]~WaiterEnded /\ []<><<WaitIteration>>_vars)

C9_Witness ==
    /\ op = "wait" /\ pc = "poll"
    /\ pending = MaxCount /\ queries = MaxCount /\ sleeps = MaxCount
    /\ failures = 0
    /\ remote \in NonTerminal

\* C10: a run of transcribe_audio sends exactly one submission, before any
\* status query; every status query uses the id that submission returned;
\* and when the submission fails the call ends with the error, with no status
\* query and no second submission.
C10_OneSubmissionThenQueries ==
    op = "transcribe" =>
        /\ Len(sent) = (IF pc = "submit" THEN 0 ELSE 1)
        /\ queries > 0 => issued # NoJob
        /\ queriedIds \subseteq {issued}
        /\ (pc # "submit" /\ issued = NoJob) =>
              /\ pc = "done"
              /\ result.kind = "raise"
              /\ result.exc \in {"TransportError", "KeyError"}
              /\ queries = 0
              /\ queriedIds = {}
        /\ issued # NoJob => job_id = issued

C10_Witness ==
    /\ op = "transcribe"
    /\ Len(sent) = 1
    /\ issued = "job-2"
    /\ queriedIds = {"job-2"}
    /\ queries = 2 /\ pending = 1
    /\ pc = "done"

====
